---- MODULE Spec2Model ----
(***************************************************************************)
(* A model of the Data-Science-Agent chat application: the command         *)
(* dispatcher of app.py (process_chat, process_command), the session       *)
(* events wired in its __main__ block, and the remote bindings of          *)
(* mcp_tools.py (sheet read/write, upload, paginated listing).             *)
(*                                                                         *)
(* Python values are represented as follows.  A string is a TLA+ string;   *)
(* an optional string holds NoneStr when it is None.  An object (a data    *)
(* frame, a service handle, credentials) is a record; None is the record   *)
(* None.  An input line is the sequence of its atoms (the marker "/", a    *)
(* blank " ", or a word without blanks and markers): the line is their     *)
(* concatenation.  A message built by an f-string is the sequence of its   *)
(* pieces.                                                                 *)
(***************************************************************************)
EXTENDS Naturals, Sequences, FiniteSets, TLC

VARIABLES
    token,            \* gr.BrowserState "token": the stored credential blob
    sheets_service,   \* gr.State: document-edit service handle
    drive_service,    \* gr.State: file-storage service handle
    df,               \* gr.State: the loaded dataset
    auth_status,      \* text of the authentication status box
    data_status,      \* text of the data status box
    chat,             \* the process_chat call in progress / just returned
    fs,               \* local files written by the process (paths)
    sheets,           \* the remote spreadsheets: identifier -> stored block
    lf,               \* a list_files call: its locals and the requests sent
    rt                \* the last direct call of a sheet binding

vars == <<token, sheets_service, drive_service, df, auth_status, data_status,
          chat, fs, sheets, lf, rt>>

----------------------------------------------------------------------------
(* Bounds of the model *)

MaxLead == 2       \* leading marker/blank characters of an input line
MaxArgs == 1       \* argument words of an input line
MaxRequests == 4   \* requests one list_files call may send in the model
MaxRows == 3       \* rows of a block handed to a sheet binding
MaxCols == 2       \* cells of one row of such a block

----------------------------------------------------------------------------
(* Python values *)

None == [py |-> "None"]
NoneStr == "<None>"

\* truth value of an optional string: None and "" are false
Truthy(s) == s # NoneStr /\ s # ""

SeqsUpTo(S, n) == UNION {[1..k -> S] : k \in 0..n}

RECURSIVE Concat(_)
\* "".join(pieces)
Concat(pieces) ==
    IF pieces = <<>> THEN "" ELSE Head(pieces) \o Concat(Tail(pieces))

RECURSIVE Flatten(_)
Flatten(ss) == IF ss = <<>> THEN <<>> ELSE Head(ss) \o Flatten(Tail(ss))

DataFrame(columns, rows) == [py |-> "DataFrame", columns |-> columns, rows |-> rows]

Resource(api) == [py |-> "Resource", api |-> api]

----------------------------------------------------------------------------
(* app.py: the command table and the help message *)

COMMANDS == <<
    <<"describe", "Get statistical description of the data">>,
    <<"missing", "Show missing values in the data">>,
    <<"info", "Get detailed information about the data">>,
    <<"create_sheet", "Create a new Google Spreadsheet">>,
    <<"upload", "Upload current data to Google Drive">>,
    <<"write", "Write data to a Google Spreadsheet">>,
    <<"read", "Read data from a Google Spreadsheet">>,
    <<"list", "List files in Google Drive">>,
    <<"help", "Show available commands">> >>

CommandNames == {COMMANDS[i][1] : i \in 1..Len(COMMANDS)}

get_help_message ==
    <<"Available commands:\n\n">> \o
    Flatten([i \in 1..Len(COMMANDS) |->
        <<"/", COMMANDS[i][1], " - ", COMMANDS[i][2], "\n">>])

----------------------------------------------------------------------------
(* Input lines *)

Marker == "/"
Blank == " "

ArgWords == {"S1"}
Words == CommandNames \cup {"READ"} \cup ArgWords
Atoms == {Marker, Blank} \cup Words

\* str.lower() of one atom
LowerAtom(a) ==
    CASE a = "READ" -> "read"
      [] a = "S1" -> "s1"
      [] OTHER -> a

RECURSIVE ArgTail(_)
ArgTail(args) ==
    IF args = <<>> THEN <<>> ELSE <<Blank, Head(args)>> \o ArgTail(Tail(args))

Leads == SeqsUpTo({Marker, Blank}, MaxLead)
Bodies == {<<>>} \cup
          {<<w>> \o ArgTail(a) : w \in Words, a \in SeqsUpTo(ArgWords, MaxArgs)}
Lines == {l \o b : l \in Leads, b \in Bodies}

\* a faulty variant of StartsWithMarker: leading blanks are skipped
StartsWithMarker_Stripped(message) ==
    \E i \in 1..Len(message) :
        message[i] = Marker /\ \A j \in 1..(i - 1) : message[j] = Blank

\* message.startswith('/')
StartsWithMarker(message) == message # <<>> /\ Head(message) = Marker

RECURSIVE SplitRuns(_, _)
\* str.split(): the maximal runs of non-blank atoms; cur is the run being read
SplitRuns(atoms, cur) ==
    IF atoms = <<>> THEN (IF cur = <<>> THEN <<>> ELSE <<cur>>)
    ELSE IF Head(atoms) = Blank
         THEN (IF cur = <<>> THEN <<>> ELSE <<cur>>) \o SplitRuns(Tail(atoms), <<>>)
         ELSE SplitRuns(Tail(atoms), Append(cur, Head(atoms)))

\* message[1:].split(), each part as a string
Split(atoms) ==
    LET runs == SplitRuns(atoms, <<>>)
    IN  [i \in 1..Len(runs) |-> Concat(runs[i])]

\* parts[0].lower()
LowerFirst(atoms) ==
    LET run == SplitRuns(atoms, <<>>)[1]
    IN  Concat([i \in 1..Len(run) |-> LowerAtom(run[i])])

----------------------------------------------------------------------------
(* The environment of one call: what the libraries and the remote service  *)
(* do when called.  An exception raised there carries the text ErrText.    *)

ErrText == "boom"

DfOutcomes == {"ok", "raise"}            \* a dataframe-library call
RemOutcomes == {"ok", "raise", "noid"}   \* a remote call; noid: no id in the reply

MimeSheet == "application/vnd.google-apps.spreadsheet"

File(id, name) == [id |-> id, name |-> name, mimeType |-> MimeSheet]

PageTokens == {"t1", "t2"}
ReqTokens == {NoneStr} \cup PageTokens

Page(files, next) == [status |-> "ok", files |-> files, nextPageToken |-> next]
RaisingPage == [status |-> "raise", files |-> <<>>, nextPageToken |-> NoneStr]

\* a listing service: the reply to a request, by the page token it carries
OnePageService == [t \in ReqTokens |-> Page(<<File("f1", "one")>>, NoneStr)]
EmptyService == [t \in ReqTokens |-> Page(<<>>, NoneStr)]
RaisingService == [t \in ReqTokens |-> RaisingPage]
TwoPageService ==
    [t \in ReqTokens |->
        IF t = NoneStr THEN Page(<<File("f1", "one")>>, "t1")
        ELSE Page(<<File("f2", "two")>>, NoneStr)]
NamelessService == [t \in ReqTokens |-> Page(<<[id |-> "f3"]>>, NoneStr)]

SampleServices ==
    {OnePageService, EmptyService, RaisingService, TwoPageService, NamelessService}

DefaultEnv == [dfop |-> "ok", rem |-> "ok", svc |-> OnePageService]

\* the environments of a command: one call at a time deviates from DefaultEnv
\* (a handler makes its dataframe call before its remote call, and a raising
\* dataframe call ends the handler)
Envs ==
    {[DefaultEnv EXCEPT !.dfop = o] : o \in DfOutcomes} \cup
    {[DefaultEnv EXCEPT !.rem = o] : o \in RemOutcomes} \cup
    {[DefaultEnv EXCEPT !.svc = s] : s \in SampleServices}

\* the part of env a call consulted, given the library calls it made
Consulted(env, calls) ==
    LET made(names) == \E i \in 1..Len(calls) : calls[i] \in names
    IN  [dfop |-> IF made({"mcp.describe", "mcp.missing_values", "mcp.get_info",
                          "df.to_csv", "df.values.tolist"})
                  THEN env.dfop ELSE DefaultEnv.dfop,
         rem |-> IF made({"mcp.create_spreadsheet", "mcp.upload_to_drive",
                         "mcp.write_to_sheet", "mcp.read_sheet"})
                 THEN env.rem ELSE DefaultEnv.rem,
         svc |-> IF made({"mcp.list_files"}) THEN env.svc ELSE DefaultEnv.svc]

Returned(v) == [raised |-> FALSE, err |-> "", ret |-> v]
Raised(e) == [raised |-> TRUE, err |-> e, ret |-> None]

----------------------------------------------------------------------------
(* mcp_tools.py: the dataframe summaries *)

\* the text a frame is rendered as
Repr(d) ==
    IF d = None THEN "None"
    ELSE "[" \o Concat(d.columns) \o "|" \o Concat(Flatten(d.rows)) \o "]"

describe(d, o) ==
    IF d = None THEN Returned("No dataset uploaded.")
    ELSE IF o = "raise" THEN Raised(ErrText)
    ELSE Returned("describe" \o Repr(d))

missing_values(d, o) ==
    IF d = None THEN Returned("No dataset uploaded.")
    ELSE IF o = "raise" THEN Raised(ErrText)
    ELSE Returned("isnull.sum" \o Repr(d))

get_info(d, o) ==
    IF d = None THEN Returned("No dataset uploaded.")
    ELSE IF o = "raise" THEN Raised(ErrText)
    ELSE Returned("info" \o Repr(d))

\* json.dumps(result, indent=2)
JsonDumps(result) == "json:" \o result

----------------------------------------------------------------------------
(* mcp_tools.py: the remote bindings *)

SheetIds == {"S1", "S2"}

WriteDefaultRange == "Sheet1!A1"
ReadDefaultRange == "Sheet1"

create_spreadsheet(service, title, o) ==
    CASE o = "raise" -> NoneStr                \* except: return None
      [] o = "noid" -> NoneStr                 \* response.get('spreadsheetId')
      [] OTHER -> "sheet-" \o title

\* the file at file_path must open; then files().create(...).execute()
upload_to_drive(service, file_path, mime_type, folder_id, files, o) ==
    CASE file_path \notin files -> NoneStr     \* open() raises, caught
      [] o = "raise" -> NoneStr
      [] o = "noid" -> NoneStr                 \* file.get('id')
      [] OTHER -> "file-" \o file_path

\* spreadsheets().values().update(...).execute() of the remote service, which
\* keeps the last block written per spreadsheet identifier
ValuesUpdate(store, spreadsheet_id, range_name, values, o) ==
    IF o = "raise" \/ spreadsheet_id \notin DOMAIN store
    THEN [raised |-> TRUE, store |-> store]
    ELSE [raised |-> FALSE, store |-> [store EXCEPT ![spreadsheet_id] = values]]

\* spreadsheets().values().get(...).execute(), then result.get('values', [])
ValuesGet(store, spreadsheet_id, range_name, o) ==
    IF o = "raise" \/ spreadsheet_id \notin DOMAIN store
    THEN Raised(ErrText)
    ELSE [raised |-> FALSE, err |-> "", ret |-> store[spreadsheet_id]]

write_to_sheet(service, spreadsheet_id, data, range_name, store, o) ==
    LET u == ValuesUpdate(store, spreadsheet_id, range_name, data, o)
    IN  [ret |-> ~u.raised, store |-> u.store]

RECURSIVE RowWidth(_)
RowWidth(rows) ==
    IF rows = <<>> THEN 0
    ELSE LET m == RowWidth(Tail(rows))
         IN  IF Len(Head(rows)) > m THEN Len(Head(rows)) ELSE m

\* pd.DataFrame(data, columns=headers): short rows are padded with None, and
\* a width other than the number of headers raises ValueError
PdDataFrame(data, headers) ==
    IF data # <<>> /\ RowWidth(data) # Len(headers)
    THEN Raised("columns passed, passed data had other columns")
    ELSE Returned(DataFrame(headers,
            [i \in 1..Len(data) |->
                [j \in 1..Len(headers) |->
                    IF j <= Len(data[i]) THEN data[i][j] ELSE NoneStr]]))

\* a faulty variant of read_sheet: the header row is kept among the data rows
read_sheet_HeaderInData(service, spreadsheet_id, range_name, store, o) ==
    LET g == ValuesGet(store, spreadsheet_id, range_name, o)
        values == g.ret
    IN  IF g.raised THEN None
        ELSE IF values = <<>> THEN None
        ELSE LET made == PdDataFrame(values, values[1])
             IN  IF made.raised THEN None ELSE made.ret

read_sheet(service, spreadsheet_id, range_name, store, o) ==
    LET g == ValuesGet(store, spreadsheet_id, range_name, o)
        values == g.ret
    IN  IF g.raised THEN None                  \* except: return None
        ELSE IF values = <<>> THEN None        \* if not values
        ELSE LET headers == values[1]
                 data == Tail(values)
                 made == PdDataFrame(data, headers)
             IN  IF made.raised THEN None ELSE made.ret

----------------------------------------------------------------------------
(* mcp_tools.py: list_files, one request at a time *)

\* ' and '.join(query) if query else ''
QueryString(folder_id, file_type) ==
    LET a == IF Truthy(folder_id) THEN <<"'" \o folder_id \o "' in parents">> ELSE <<>>
        b == IF Truthy(file_type) THEN <<"mimeType='" \o file_type \o "'">> ELSE <<>>
        query == a \o b
    IN  IF Len(query) = 2 THEN query[1] \o " and " \o query[2]
        ELSE IF Len(query) = 1 THEN query[1]
        ELSE ""

LfIdle ==
    [pc |-> "idle", svc |-> EmptyService, folder_id |-> NoneStr,
     file_type |-> NoneStr, q |-> "", page_token |-> NoneStr,
     results |-> <<>>, requests |-> <<>>, raised |-> FALSE, ret |-> <<>>]

\* the locals of list_files on entry to its loop
LfStart(svc, folder_id, file_type) ==
    [LfIdle EXCEPT !.pc = "loop", !.svc = svc, !.folder_id = folder_id,
                   !.file_type = file_type,
                   !.q = QueryString(folder_id, file_type)]

\* a faulty variant of LfStep: each page replaces the pages before it
LfStep_Overwrites(st) ==
    LET request == [q |-> st.q, pageToken |-> st.page_token]
        response == st.svc[st.page_token]
        sent == [st EXCEPT !.requests = Append(@, request)]
    IN  IF response.status = "raise"
        THEN [sent EXCEPT !.pc = "done", !.raised = TRUE, !.ret = <<>>]
        ELSE LET results == response.files
                 page_token == response.nextPageToken
             IN  IF ~Truthy(page_token)
                 THEN [sent EXCEPT !.pc = "done", !.results = results,
                                   !.page_token = page_token, !.ret = results]
                 ELSE [sent EXCEPT !.results = results, !.page_token = page_token]

\* one turn of the loop: a request, and what is done with its reply
LfStep(st) ==
    LET request == [q |-> st.q, pageToken |-> st.page_token]
        response == st.svc[st.page_token]
        sent == [st EXCEPT !.requests = Append(@, request)]
    IN  IF response.status = "raise"
        THEN [sent EXCEPT !.pc = "done", !.raised = TRUE, !.ret = <<>>]
        ELSE LET results == st.results \o response.files
                 page_token == response.nextPageToken
             IN  IF ~Truthy(page_token)
                 THEN [sent EXCEPT !.pc = "done", !.results = results,
                                   !.page_token = page_token, !.ret = results]
                 ELSE [sent EXCEPT !.results = results, !.page_token = page_token]

RECURSIVE LfRun(_, _)
\* the loop run to its end (within n requests)
LfRun(st, n) ==
    IF st.pc # "loop" \/ n = 0 THEN st ELSE LfRun(LfStep(st), n - 1)

list_files(svc, folder_id, file_type) ==
    LfRun(LfStart(svc, folder_id, file_type), MaxRequests).ret

----------------------------------------------------------------------------
(* app.py: process_command *)

DataCommands == {"describe", "missing", "info"}
RemoteCommands == {"create_sheet", "upload", "write", "read", "list"}

\* a normal return of process_command, and an exception inside its try block;
\* files and store are the local files and remote sheets the call leaves
Reply(response, d, calls, files, store) ==
    [raised |-> FALSE, err |-> "", response |-> response, df |-> d,
     calls |-> calls, fs |-> files, sheets |-> store]
Throw(err, calls, files, store) ==
    [raised |-> TRUE, err |-> err, response |-> <<>>, df |-> None,
     calls |-> calls, fs |-> files, sheets |-> store]

TempPath(name) == "temp_" \o name \o ".csv"

\* [df.columns.tolist()] + df.values.tolist()
FrameBlock(d) == <<d.columns>> \o d.rows

RECURSIVE FileLines(_)
\* the pieces of "\n".join([f"- {f['name']} (ID: {f['id']})" for f in files])
FileLines(files) ==
    IF files = <<>> THEN <<>>
    ELSE <<"- ", Head(files).name, " (ID: ", Head(files).id, ")">> \o
         (IF Tail(files) = <<>> THEN <<>> ELSE <<"\n">>) \o FileLines(Tail(files))

HandleDescribe(d, files, store, env) ==
    LET result == describe(d, env.dfop)
        calls == <<"mcp.describe">>
    IN  IF result.raised THEN Throw(result.err, calls, files, store)
        ELSE Reply(<<"Statistical Description:\n", JsonDumps(result.ret)>>,
                   d, calls, files, store)

HandleMissing(d, files, store, env) ==
    LET result == missing_values(d, env.dfop)
        calls == <<"mcp.missing_values">>
    IN  IF result.raised THEN Throw(result.err, calls, files, store)
        ELSE Reply(<<"Missing Values:\n", JsonDumps(result.ret)>>,
                   d, calls, files, store)

HandleInfo(d, files, store, env) ==
    LET result == get_info(d, env.dfop)
        calls == <<"mcp.get_info">>
    IN  IF result.raised THEN Throw(result.err, calls, files, store)
        ELSE Reply(<<"Dataset Info:\n", result.ret>>, d, calls, files, store)

\* a faulty variant of HandleCreateSheet: the binding lets the remote
\* exception through to the dispatcher
HandleCreateSheet_Propagates(args, d, service, files, store, env) ==
    IF Len(args) < 1
    THEN Reply(<<"Please provide a name for the spreadsheet: /create_sheet <name>">>,
               d, <<>>, files, store)
    ELSE IF env.rem = "raise"
    THEN Throw(ErrText, <<"mcp.create_spreadsheet">>, files, store)
    ELSE Reply(<<"Created new spreadsheet with ID: ",
                 create_spreadsheet(service, args[1], env.rem)>>,
               d, <<"mcp.create_spreadsheet">>, files, store)

HandleCreateSheet(args, d, service, files, store, env) ==
    IF Len(args) < 1
    THEN Reply(<<"Please provide a name for the spreadsheet: /create_sheet <name>">>,
               d, <<>>, files, store)
    ELSE LET sheet_id == create_spreadsheet(service, args[1], env.rem)
             calls == <<"mcp.create_spreadsheet">>
         IN  IF Truthy(sheet_id)
             THEN Reply(<<"Created new spreadsheet with ID: ", sheet_id>>,
                        d, calls, files, store)
             ELSE Reply(<<"Failed to ", "create spreadsheet">>, d, calls, files, store)

HandleUpload(args, d, service, files, store, env) ==
    IF d = None
    THEN Reply(<<"No data to upload. Please load a CSV file first.">>,
               None, <<>>, files, store)
    ELSE IF Len(args) < 1
    THEN Reply(<<"Please provide a filename: /upload <filename>">>,
               d, <<>>, files, store)
    ELSE LET temp_path == TempPath(args[1])
         IN  IF env.dfop = "raise"                       \* df.to_csv raises
             THEN Throw(ErrText, <<"df.to_csv">>, files, store)
             ELSE LET written == files \cup {temp_path}  \* df.to_csv(temp_path)
                      file_id == upload_to_drive(service, temp_path, "text/csv",
                                                 NoneStr, written, env.rem)
                      calls == <<"df.to_csv", "mcp.upload_to_drive">>
                  IN  IF Truthy(file_id)
                      THEN Reply(<<"File uploaded successfully with ID: ", file_id>>,
                                 d, calls, written, store)
                      ELSE Reply(<<"Failed to ", "upload file">>,
                                 d, calls, written, store)

HandleWrite(args, d, service, files, store, env) ==
    IF d = None
    THEN Reply(<<"No data to write. Please load a CSV file first.">>,
               None, <<>>, files, store)
    ELSE IF Len(args) < 1
    THEN Reply(<<"Please provide spreadsheet ID: /write <spreadsheet_id>">>,
               d, <<>>, files, store)
    ELSE IF env.dfop = "raise"                           \* df.values.tolist raises
    THEN Throw(ErrText, <<"df.values.tolist">>, files, store)
    ELSE LET data == FrameBlock(d)
             w == write_to_sheet(service, args[1], data, WriteDefaultRange,
                                 store, env.rem)
             calls == <<"df.values.tolist", "mcp.write_to_sheet">>
         IN  IF w.ret
             THEN Reply(<<"Data written to sheet successfully">>,
                        d, calls, files, w.store)
             ELSE Reply(<<"Failed to ", "write data to sheet">>,
                        d, calls, files, w.store)

\* a faulty variant of HandleRead: a failed read replaces the dataset too
HandleRead_AlwaysReplaces(args, d, service, files, store, env) ==
    IF Len(args) < 1
    THEN Reply(<<"Please provide spreadsheet ID: /read <spreadsheet_id>">>,
               d, <<>>, files, store)
    ELSE LET new_df == read_sheet(service, args[1], ReadDefaultRange, store, env.rem)
             calls == <<"mcp.read_sheet">>
         IN  IF new_df # None
             THEN Reply(<<"Data loaded from sheet successfully">>,
                        new_df, calls, files, store)
             ELSE Reply(<<"Failed to ", "read data from sheet">>,
                        new_df, calls, files, store)

HandleRead(args, d, service, files, store, env) ==
    IF Len(args) < 1
    THEN Reply(<<"Please provide spreadsheet ID: /read <spreadsheet_id>">>,
               d, <<>>, files, store)
    ELSE LET new_df == read_sheet(service, args[1], ReadDefaultRange, store, env.rem)
             calls == <<"mcp.read_sheet">>
         IN  IF new_df # None
             THEN Reply(<<"Data loaded from sheet successfully">>,
                        new_df, calls, files, store)
             ELSE Reply(<<"Failed to ", "read data from sheet">>,
                        d, calls, files, store)

HandleList(d, service, files, store, env) ==
    LET found == list_files(env.svc, NoneStr, MimeSheet)
        calls == <<"mcp.list_files">>
    IN  IF found # <<>>
        THEN IF \E i \in 1..Len(found) : {"name", "id"} \ DOMAIN found[i] # {}
             THEN Throw("KeyError", calls, files, store)
             ELSE Reply(<<"Available Spreadsheets:\n">> \o FileLines(found),
                        d, calls, files, store)
        ELSE Reply(<<"No spreadsheets found or error occurred">>,
                   d, calls, files, store)

\* a faulty variant of UnknownCommand: the dataset is dropped, as on line 49
UnknownCommand_DropsDataset(d, files, store) ==
    Reply(<<"Unknown command. Type /help to see available commands.">>,
          None, <<>>, files, store)

\* the else branch of the command chain
UnknownCommand(d, files, store) ==
    Reply(<<"Unknown command. Type /help to see available commands.">>,
          d, <<>>, files, store)

\* the try block of process_command
Handle(command, args, d, sheets_svc, drive_svc, files, store, env) ==
    CASE command = "describe" -> HandleDescribe(d, files, store, env)
      [] command = "missing" -> HandleMissing(d, files, store, env)
      [] command = "info" -> HandleInfo(d, files, store, env)
      [] command = "create_sheet" ->
            HandleCreateSheet(args, d, sheets_svc, files, store, env)
      [] command = "upload" -> HandleUpload(args, d, drive_svc, files, store, env)
      [] command = "write" -> HandleWrite(args, d, sheets_svc, files, store, env)
      [] command = "read" -> HandleRead(args, d, sheets_svc, files, store, env)
      [] command = "list" -> HandleList(d, drive_svc, files, store, env)
      [] OTHER -> UnknownCommand(d, files, store)

\* a faulty variant of ServicesMissing: "and" in place of "or"
ServicesMissing_BothOnly(sheets_svc, drive_svc) ==
    sheets_svc = None /\ drive_svc = None

\* sheets_service is None or drive_service is None
ServicesMissing(sheets_svc, drive_svc) ==
    sheets_svc = None \/ drive_svc = None

\* a faulty variant of OnException: the dataset is dropped
OnException_DropsDataset(h, d) ==
    Reply(<<"Error processing command: ", h.err>>, None, h.calls, h.fs, h.sheets)

\* except Exception as e: return f"Error processing command: {str(e)}", df
OnException(h, d) ==
    Reply(<<"Error processing command: ", h.err>>, d, h.calls, h.fs, h.sheets)

process_command(command, args, d, sheets_svc, drive_svc, files, store, env) ==
    IF command = "help"
    THEN Reply(get_help_message, d, <<>>, files, store)
    ELSE IF command \in DataCommands /\ d = None
    THEN Reply(<<"No data loaded. Please upload a CSV file first.">>,
               None, <<>>, files, store)
    ELSE IF command \in RemoteCommands /\ ServicesMissing(sheets_svc, drive_svc)
    THEN Reply(<<"Not authenticated with Google. Please authenticate first.">>,
               d, <<>>, files, store)
    ELSE LET h == Handle(command, args, d, sheets_svc, drive_svc, files, store, env)
         IN  IF h.raised THEN OnException(h, d) ELSE h

----------------------------------------------------------------------------
(* app.py: process_chat *)

process_chat(message, d, sheets_svc, drive_svc, files, store, env) ==
    IF StartsWithMarker(message)
    THEN LET parts == Split(Tail(message))
         IN  IF parts = <<>>
             THEN Throw("list index out of range", <<>>, files, store)  \* parts[0]
             ELSE process_command(LowerFirst(Tail(message)), Tail(parts),
                                  d, sheets_svc, drive_svc, files, store, env)
    ELSE Reply(<<"Type /help to see available commands">>, d, <<>>, files, store)

----------------------------------------------------------------------------
(* app.py: upload_csv, create_services, auth, refresh *)

SampleFrames ==
    {DataFrame(<<"a", "b">>, << <<"1", "2">> >>), DataFrame(<<"a">>, <<>>)}

\* pd.read_csv(file.name): file is NoneStr, a readable CSV or an unreadable one
upload_csv(file, parsed) ==
    IF file = NoneStr
    THEN [status |-> <<"No file uploaded or filename provided.">>, df |-> None]
    ELSE IF file = "unreadable"
    THEN [status |-> <<"Error: ", ErrText>>, df |-> None]
    ELSE [status |-> <<"File uploaded successfully!">>, df |-> parsed]

\* the stored credential blobs: creds.to_json() with and without a refresh token
TokenRefreshable == "creds+refresh_token"
TokenPlain == "creds"
Tokens == {NoneStr, "", "garbage", TokenRefreshable, TokenPlain}

\* the outcomes of create_services' two build calls: both succeed, the first
\* raises, or the second raises after the first has succeeded
BuildOutcomes == {"ok", "raise_sheets", "raise_drive"}

\* sheets = build(...); drive = build(...); an exception of either build is
\* caught and (None, None) is returned
create_services(creds, o) ==
    IF o = "ok" THEN <<Resource("sheets"), Resource("drive")>>
    ELSE <<None, None>>

\* a faulty variant of AuthResult: the file-storage handle is left out
AuthResult_DropsDrive(tok, services, status) ==
    [token |-> tok, sheets_service |-> services[1], drive_service |-> None,
     status |-> status]

AuthResult(tok, services, status) ==
    [token |-> tok, sheets_service |-> services[1], drive_service |-> services[2],
     status |-> status]

\* flow: the OAuth flow succeeds or raises; build: create_services' outcome
auth(tok, flow, build) ==
    IF flow = "raise"
    THEN AuthResult(NoneStr, <<None, None>>, <<"Authentication failed: ", ErrText>>)
    ELSE LET services == create_services(TokenRefreshable, build)
         IN  IF services[1] # None /\ services[2] # None
             THEN AuthResult(TokenRefreshable, services,
                             <<"Successfully authenticated with Google!">>)
             ELSE AuthResult(TokenRefreshable, <<None, None>>,
                             <<"Services creation failed after authentication.">>)

\* state: the loaded credentials are "valid" or "expired"; renew: the outcome
\* of creds.refresh(Request()); build: create_services' outcome
refresh(tok, state, renew, build) ==
    IF Truthy(tok) /\ tok = "garbage"
    THEN AuthResult(NoneStr, <<None, None>>,
                    <<"Invalid credentials stored. Please authenticate again.">>)
    ELSE IF ~Truthy(tok) \/ state # "valid"
    THEN IF Truthy(tok) /\ state = "expired" /\ tok = TokenRefreshable
         THEN IF renew = "raise"
              THEN AuthResult(NoneStr, <<None, None>>,
                     <<"Failed to refresh credentials. Please authenticate again.">>)
              ELSE LET services == create_services(tok, build)
                   IN  IF services[1] # None /\ services[2] # None
                       THEN AuthResult(tok, services,
                                       <<"Credentials refreshed successfully!">>)
                       ELSE AuthResult(tok, <<None, None>>,
                                       <<"Services creation failed after refresh.">>)
         ELSE AuthResult(NoneStr, <<None, None>>, <<"Please authenticate with Google.">>)
    ELSE LET services == create_services(tok, build)
         IN  IF services[1] # None /\ services[2] # None
             THEN AuthResult(tok, services, <<"Valid credentials found.">>)
             ELSE AuthResult(tok, <<None, None>>, <<"Services creation failed.">>)

----------------------------------------------------------------------------
(* The session: the event handlers wired in app.py's __main__ block *)

IdleChat ==
    [phase |-> "idle", message |-> <<>>, env |-> DefaultEnv, raised |-> FALSE,
     response |-> <<>>, df |-> None, calls |-> <<>>, history |-> <<>>]

RtIdle ==
    [pc |-> "idle", id |-> NoneStr, block |-> <<>>, wrote |-> FALSE,
     read_id |-> NoneStr, failed |-> FALSE, result |-> None]

\* demo.load(refresh, inputs=[token], outputs=[token, services, auth_status])
Refresh ==
    /\ chat.phase = "idle"
    /\ \E state \in {"valid", "expired"}, renew \in {"ok", "raise"},
          build \in BuildOutcomes :
        LET r == refresh(token, state, renew, build)
        IN  /\ token' = r.token
            /\ sheets_service' = r.sheets_service
            /\ drive_service' = r.drive_service
            /\ auth_status' = r.status
    /\ UNCHANGED <<df, data_status, chat, fs, sheets, lf, rt>>

\* auth_button.click(auth, ...)
Auth ==
    /\ chat.phase = "idle"
    /\ \E flow \in {"ok", "raise"}, build \in BuildOutcomes :
        LET r == auth(token, flow, build)
        IN  /\ token' = r.token
            /\ sheets_service' = r.sheets_service
            /\ drive_service' = r.drive_service
            /\ auth_status' = r.status
    /\ UNCHANGED <<df, data_status, chat, fs, sheets, lf, rt>>

\* file_upload.upload(upload_csv, inputs=[file_upload], outputs=[data_status, df])
UploadCsv ==
    /\ chat.phase = "idle"
    /\ \E file \in {NoneStr, "unreadable", "readable"}, parsed \in SampleFrames :
        LET r == upload_csv(file, parsed)
        IN  /\ data_status' = r.status
            /\ df' = r.df
    /\ UNCHANGED <<token, sheets_service, drive_service, auth_status, chat, fs,
                   sheets, lf, rt>>

\* the environments to tell apart for a call: a call that reaches no library
\* or remote call under DefaultEnv reaches none under any other
EnvsOf(message, d, sheets_svc, drive_svc, files, store) ==
    IF process_chat(message, d, sheets_svc, drive_svc, files, store,
                    DefaultEnv).calls = <<>>
    THEN {DefaultEnv}
    ELSE Envs

\* msg.submit(process_chat, ...): the call, up to its return or its exception.
\* A call that returns has appended (message, response) to the history.
ProcessChat ==
    /\ chat.phase = "idle"
    /\ \E message \in Lines :
       \E env \in EnvsOf(message, df, sheets_service, drive_service, fs, sheets) :
        LET r == process_chat(message, df, sheets_service, drive_service,
                              fs, sheets, env)
        IN  /\ chat' = [phase |-> "returned", message |-> message,
                        env |-> Consulted(env, r.calls),
                        raised |-> r.raised, response |-> r.response, df |-> r.df,
                        calls |-> r.calls,
                        history |-> IF r.raised THEN <<>>
                                    ELSE <<message, r.response>>]
            /\ fs' = r.fs
            /\ sheets' = r.sheets
    /\ UNCHANGED <<token, sheets_service, drive_service, df, auth_status,
                   data_status, lf, rt>>

\* outputs=[msg, chatbot, df]: the returned dataset becomes the session's; a
\* call that raised writes no output
DeliverOutputs ==
    /\ chat.phase = "returned"
    /\ df' = IF chat.raised THEN df ELSE chat.df
    /\ chat' = IdleChat
    /\ UNCHANGED <<token, sheets_service, drive_service, auth_status, data_status,
                   fs, sheets, lf, rt>>

EmptyStore == [id \in SheetIds |-> <<>>]

Init ==
    /\ token \in Tokens
    /\ sheets_service = None
    /\ drive_service = None
    /\ df = None
    /\ auth_status = <<>>
    /\ data_status = <<>>
    /\ chat = IdleChat
    /\ fs = {}
    /\ sheets = EmptyStore
    /\ lf = LfIdle
    /\ rt = RtIdle

Next == Refresh \/ Auth \/ UploadCsv \/ ProcessChat \/ DeliverOutputs

Spec == Init /\ [][Next]_vars

----------------------------------------------------------------------------
(* process_chat applied to any session state *)

SampleBlocks ==
    {<<>>, << <<"a", "b">>, <<"1", "2">> >>, << <<"a">>, <<"1", "2">> >>}

CmdInit ==
    /\ token = NoneStr
    /\ sheets_service \in {None, Resource("sheets")}
    /\ drive_service \in {None, Resource("drive")}
    /\ df \in {None} \cup SampleFrames
    /\ auth_status = <<>>
    /\ data_status = <<>>
    /\ chat = IdleChat
    /\ fs = {}
    /\ sheets \in {[id \in SheetIds |-> b] : b \in SampleBlocks}
    /\ lf = LfIdle
    /\ rt = RtIdle

CmdNext == ProcessChat \/ DeliverOutputs

CmdSpec == CmdInit /\ [][CmdNext]_vars

----------------------------------------------------------------------------
(* list_files against any paged service, one request per step *)

FileSeqs == {<<>>, <<File("f1", "one")>>, <<File("f2", "two"), File("f3", "three")>>}
NextTokens == {NoneStr, ""} \cup PageTokens
Pages == {Page(f, n) : f \in FileSeqs, n \in NextTokens} \cup {RaisingPage}
Services == [ReqTokens -> Pages]

FolderIds == {NoneStr, "", "F1"}
FileTypes == {NoneStr, MimeSheet}

BaseSession ==
    /\ token = NoneStr
    /\ sheets_service = None
    /\ drive_service = None
    /\ df = None
    /\ auth_status = <<>>
    /\ data_status = <<>>
    /\ chat = IdleChat
    /\ fs = {}

ListInit ==
    /\ BaseSession
    /\ sheets = EmptyStore
    /\ lf = LfIdle
    /\ rt = RtIdle

\* the call: the filters are folded into the query, the loop is entered
ListFilesCall ==
    /\ lf.pc = "idle"
    /\ \E svc \in Services, folder_id \in FolderIds, file_type \in FileTypes :
        lf' = LfStart(svc, folder_id, file_type)
    /\ UNCHANGED <<token, sheets_service, drive_service, df, auth_status,
                   data_status, chat, fs, sheets, rt>>

\* one turn of the while loop
ListFilesRequest ==
    /\ lf.pc = "loop"
    /\ Len(lf.requests) < MaxRequests
    /\ lf' = LfStep(lf)
    /\ UNCHANGED <<token, sheets_service, drive_service, df, auth_status,
                   data_status, chat, fs, sheets, rt>>

ListNext == ListFilesCall \/ ListFilesRequest

ListSpec == ListInit /\ [][ListNext]_vars

\* the loop is sequential code: a turn that can be taken is taken
ListFairSpec == ListInit /\ [][ListNext]_vars /\ WF_vars(ListFilesRequest)

----------------------------------------------------------------------------
(* The sheet bindings called directly: a write, then a read *)

Cells == {"a", "1"}
Blocks == SeqsUpTo(SeqsUpTo(Cells, MaxCols), MaxRows)

SheetInit ==
    /\ BaseSession
    /\ sheets \in {[id \in SheetIds |-> b] : b \in SampleBlocks}
    /\ lf = LfIdle
    /\ rt = RtIdle

\* write_to_sheet(service, id, block), with the default range
SheetWrite ==
    /\ rt.pc = "idle"
    /\ \E id \in SheetIds, block \in Blocks, o \in {"ok", "raise"} :
        LET w == write_to_sheet(Resource("sheets"), id, block, WriteDefaultRange,
                                sheets, o)
        IN  /\ sheets' = w.store
            /\ rt' = [RtIdle EXCEPT !.pc = "written", !.id = id, !.block = block,
                                    !.wrote = w.ret]
    /\ UNCHANGED <<token, sheets_service, drive_service, df, auth_status,
                   data_status, chat, fs, lf>>

\* read_sheet(service, id), with the default range
SheetRead ==
    /\ rt.pc = "written"
    /\ \E id \in SheetIds, o \in {"ok", "raise"} :
        rt' = [rt EXCEPT !.pc = "read", !.read_id = id, !.failed = (o = "raise"),
                         !.result = read_sheet(Resource("sheets"), id,
                                               ReadDefaultRange, sheets, o)]
    /\ UNCHANGED <<token, sheets_service, drive_service, df, auth_status,
                   data_status, chat, fs, sheets, lf>>

SheetNext == SheetWrite \/ SheetRead

SheetSpec == SheetInit /\ [][SheetNext]_vars

----------------------------------------------------------------------------
(* Properties of the dispatcher.  In a state where a call has returned,    *)
(* chat holds the call's line and results, and df, sheets_service and      *)
(* drive_service are still the values the call was given.                  *)

HasReturned == chat.phase = "returned"

ChatParts == Split(Tail(chat.message))

\* the call reached process_command
IsCommandCall ==
    HasReturned /\ StartsWithMarker(chat.message) /\ ChatParts # <<>>

ChatCommand == LowerFirst(Tail(chat.message))
ChatArgs == Tail(ChatParts)

Called(name) == \E i \in 1..Len(chat.calls) : chat.calls[i] = name

BothServices == sheets_service # None /\ drive_service # None

\* C1: for every input line and every session state, process_chat returns a
\* response message and raises no error to its caller
C1_AlwaysReturnsMessage ==
    HasReturned => ~chat.raised /\ chat.response # <<>>

\* the remote call of the command was made and raised
RemoteCallRaised ==
    \/ /\ \/ Called("mcp.create_spreadsheet") \/ Called("mcp.upload_to_drive")
          \/ Called("mcp.write_to_sheet") \/ Called("mcp.read_sheet")
       /\ chat.env.rem = "raise"
    \/ /\ Called("mcp.list_files")
       /\ chat.env.svc[NoneStr].status = "raise"

\* C2 as stated: each of the five remote commands whose remote call raises
\* returns a message beginning with "Failed to ", and nothing is raised
C2_FailedToForAllFive ==
    (IsCommandCall /\ ChatCommand \in RemoteCommands /\ BothServices
        /\ RemoteCallRaised)
    => ~chat.raised /\ Head(chat.response) = "Failed to "

\* C2: a remote command whose remote call raises returns its handler's own
\* failure message and raises nothing: "Failed to ..." for create_sheet,
\* upload, write and read, "No spreadsheets found or error occurred" for list
C2_RemoteFailureMessage ==
    (IsCommandCall /\ ChatCommand \in RemoteCommands /\ BothServices
        /\ RemoteCallRaised)
    => /\ ~chat.raised
       /\ chat.response =
            CASE ChatCommand = "create_sheet" -> <<"Failed to ", "create spreadsheet">>
              [] ChatCommand = "upload" -> <<"Failed to ", "upload file">>
              [] ChatCommand = "write" -> <<"Failed to ", "write data to sheet">>
              [] ChatCommand = "read" -> <<"Failed to ", "read data from sheet">>
              [] ChatCommand = "list" -> <<"No spreadsheets found or error occurred">>

C2_Witness ==
    /\ IsCommandCall /\ ChatCommand = "create_sheet" /\ BothServices
    /\ RemoteCallRaised
    /\ chat.response = <<"Failed to ", "create spreadsheet">>

\* C3: once the upload command has returned, and so between any two
\* commands, no transient file written for an upload exists
C3_NoTransientFileLeft == fs = {}

DataOps ==
    {"mcp.describe", "mcp.missing_values", "mcp.get_info", "df.to_csv",
     "df.values.tolist"}
RemoteOps ==
    {"mcp.create_spreadsheet", "mcp.upload_to_drive", "mcp.write_to_sheet",
     "mcp.read_sheet", "mcp.list_files"}

\* C4: a handler acts only when its resources are present.  With the dataset
\* absent, describe/missing/info/upload/write call no dataframe operation;
\* with a service handle absent, the five remote commands call no binding;
\* the precondition message is returned and the dataset is as before
C4_PreconditionsChecked ==
    IsCommandCall =>
    /\ (ChatCommand \in DataCommands \cup {"upload", "write"} /\ df = None)
        => \A i \in 1..Len(chat.calls) : chat.calls[i] \notin DataOps
    /\ (ChatCommand \in RemoteCommands /\ ~BothServices)
        => \A i \in 1..Len(chat.calls) : chat.calls[i] \notin RemoteOps
    /\ (ChatCommand \in DataCommands /\ df = None)
        => /\ chat.response = <<"No data loaded. Please upload a CSV file first.">>
           /\ chat.df = None
    /\ (ChatCommand \in RemoteCommands /\ ~BothServices)
        => /\ chat.response =
                <<"Not authenticated with Google. Please authenticate first.">>
           /\ chat.df = df
    /\ (ChatCommand = "upload" /\ BothServices /\ df = None)
        => /\ chat.response = <<"No data to upload. Please load a CSV file first.">>
           /\ chat.df = None
    /\ (ChatCommand = "write" /\ BothServices /\ df = None)
        => /\ chat.response = <<"No data to write. Please load a CSV file first.">>
           /\ chat.df = None

C4_Witness ==
    /\ IsCommandCall /\ ChatCommand = "read" /\ ChatArgs # <<>>
    /\ sheets_service # None /\ drive_service = None
    /\ chat.response = <<"Not authenticated with Google. Please authenticate first.">>

\* the handler of the command raised: a dataframe call, or the rendering of
\* a listed file that has no name
HandlerRaised ==
    \/ chat.env.dfop = "raise"
    \/ /\ Called("mcp.list_files")
       /\ \E i \in 1..Len(chat.env.svc[NoneStr].files) :
            "name" \notin DOMAIN chat.env.svc[NoneStr].files[i]

\* C5: when the handler of a known command raises, process_command returns
\* "Error processing command: <description>" and the dataset it was given
C5_HandlerExceptionCaught ==
    (IsCommandCall /\ ChatCommand \in CommandNames /\ HandlerRaised)
    => /\ ~chat.raised
       /\ Len(chat.response) = 2
       /\ chat.response[1] = "Error processing command: "
       /\ chat.response[2] \in {ErrText, "KeyError"}
       /\ chat.df = df

C5_Witness ==
    /\ IsCommandCall /\ ChatCommand = "upload" /\ HandlerRaised /\ df # None
    /\ chat.response = <<"Error processing command: ", ErrText>>

\* what the read binding returns for the call's argument
ReadResult ==
    read_sheet(sheets_service, ChatArgs[1], ReadDefaultRange, sheets, chat.env.rem)

\* C6: only a successful read changes the dataset.  A read whose binding
\* returns a table returns that table, a read whose binding fails returns
\* the dataset given, and so do write and upload, failing or not
C6_OnlyReadReplacesDataset ==
    (HasReturned /\ ~chat.raised) =>
    /\ chat.df # df =>
        /\ IsCommandCall /\ ChatCommand = "read"
        /\ chat.response = <<"Data loaded from sheet successfully">>
    /\ (IsCommandCall /\ ChatCommand = "read" /\ Called("mcp.read_sheet"))
        => chat.df = (IF ReadResult # None THEN ReadResult ELSE df)
    /\ (IsCommandCall /\ ChatCommand \in {"write", "upload"}) => chat.df = df

C6_Witness ==
    /\ IsCommandCall /\ ChatCommand = "read"
    /\ chat.df # df /\ chat.df # None /\ df # None
    /\ chat.df = DataFrame(sheets[ChatArgs[1]][1], Tail(sheets[ChatArgs[1]]))

\* C7: for a line that does not start with the marker, process_chat returns
\* the fixed message, makes no handler or remote call and returns the
\* dataset it was given
C7_PlainLine ==
    (HasReturned /\ (chat.message = <<>> \/ chat.message[1] # "/"))
    => /\ ~chat.raised
       /\ chat.response = <<"Type /help to see available commands">>
       /\ chat.calls = <<>>
       /\ chat.df = df

C7_Witness ==
    /\ HasReturned /\ Len(chat.message) > 1
    /\ chat.message[1] = " " /\ chat.message[2] = "/"
    /\ df # None /\ chat.df = df

\* the line of the step's call names no command of the table
UnknownCall ==
    /\ chat'.phase = "returned"
    /\ StartsWithMarker(chat'.message)
    /\ Split(Tail(chat'.message)) # <<>>
    /\ LowerFirst(Tail(chat'.message)) \notin CommandNames

\* C8: a line whose lowercased command name is not in the command table gets
\* the unknown-command message, which names /help; no handler or binding is
\* called, and the dataset and both service handles are left as they were
C8_UnknownCommand ==
    [][UnknownCall =>
        /\ ~chat'.raised
        /\ chat'.response =
            <<"Unknown command. Type /help to see available commands.">>
        /\ chat'.calls = <<>>
        /\ chat'.df = df
        /\ UNCHANGED <<df, sheets_service, drive_service, fs, sheets>>]_vars

C8_Witness ==
    /\ IsCommandCall /\ ChatCommand = "s1" /\ ChatArgs # <<>> /\ df # None
    /\ chat.response = <<"Unknown command. Type /help to see available commands.">>

----------------------------------------------------------------------------
(* Properties of list_files *)

\* the reply to the i-th request sent
LfReply(i) == lf.svc[lf.requests[i].pageToken]

\* a reply carries a continuation token: one that is present and not empty
HasToken(reply) == reply.nextPageToken \notin {NoneStr, ""}

\* every request sent so far was served a page
PagesServed ==
    \A i \in 1..Len(lf.requests) : LfReply(i).status = "ok"

\* the filter query of the call
FilterQuery ==
    CASE lf.folder_id = "F1" /\ lf.file_type = MimeSheet ->
            "'F1' in parents and mimeType='application/vnd.google-apps.spreadsheet'"
      [] lf.folder_id = "F1" /\ lf.file_type # MimeSheet -> "'F1' in parents"
      [] lf.folder_id # "F1" /\ lf.file_type = MimeSheet ->
            "mimeType='application/vnd.google-apps.spreadsheet'"
      [] OTHER -> ""

RECURSIVE EndsWithin(_, _, _)
\* following the tokens from t, the service reports no token (or fails)
\* within n requests
EndsWithin(svc, t, n) ==
    /\ n > 0
    /\ \/ svc[t].status = "raise"
       \/ ~HasToken(svc[t])
       \/ EndsWithin(svc, svc[t].nextPageToken, n - 1)

FinitelyPaged(svc) == EndsWithin(svc, NoneStr, Cardinality(ReqTokens))

C9_Requests ==
    (lf.pc # "idle" /\ PagesServed) =>
    LET n == Len(lf.requests)
    IN  /\ \A i \in 1..n : lf.requests[i].q = FilterQuery
        /\ n > 0 => lf.requests[1].pageToken = NoneStr
        /\ \A i \in 2..n :
              lf.requests[i].pageToken = LfReply(i - 1).nextPageToken
        /\ \A i \in 1..(n - 1) : HasToken(LfReply(i))
        /\ (lf.pc = "loop" /\ n > 0) => HasToken(LfReply(n))
        /\ lf.pc = "done" =>
              /\ n > 0 /\ ~HasToken(LfReply(n))
              /\ ~lf.raised
              /\ lf.ret = Flatten([i \in 1..n |-> LfReply(i).files])

\* C9: against a service that serves pages, list_files sends the same filter
\* query on every request, sends on each request after the first the token
\* of the reply before it, stops after the first reply that carries no
\* token, and returns the files of all pages in page order; and it ends
\* whenever the service comes to report no token
C9_ListFilesPaging ==
    /\ []C9_Requests
    /\ (lf.pc = "loop" /\ FinitelyPaged(lf.svc)) ~> (lf.pc = "done")

C9_Witness ==
    /\ lf.pc = "done" /\ ~lf.raised /\ Len(lf.requests) = 3
    /\ lf.folder_id = "F1" /\ lf.file_type = MimeSheet
    /\ lf.ret = <<File("f1", "one"), File("f2", "two"), File("f3", "three"),
                  File("f1", "one")>>

----------------------------------------------------------------------------
(* Properties of the sheet bindings *)

NonEmptyRectangular(block) ==
    /\ block # <<>>
    /\ \A i \in 1..Len(block) : Len(block[i]) = Len(block[1])

\* a write of rt.block to rt.id went through and the same id was read back
RoundTrip ==
    /\ rt.pc = "read" /\ rt.wrote /\ ~rt.failed /\ rt.read_id = rt.id

\* C10: write_to_sheet(id, block) of a non-empty rectangular block followed
\* by read_sheet(id), both with their default range and a service that does
\* not fail, yields the dataset whose columns are the block's first row and
\* whose data rows are the remaining rows, in order
C10_SheetRoundTrip ==
    (RoundTrip /\ NonEmptyRectangular(rt.block))
    => /\ rt.result # None
       /\ rt.result.columns = rt.block[1]
       /\ rt.result.rows = Tail(rt.block)

C10_Witness ==
    /\ RoundTrip
    /\ rt.block = << <<"a", "a">>, <<"1", "a">>, <<"a", "1">> >>
    /\ rt.result = DataFrame(<<"a", "a">>, << <<"1", "a">>, <<"a", "1">> >>)

----------------------------------------------------------------------------
(* Properties of the session *)

\* C11: in every state reached from the empty session by page loads,
\* authentications, CSV uploads and chat commands, the document-edit handle
\* and the file-storage handle are both present or both absent
C11_HandlesTogether ==
    (sheets_service = None) <=> (drive_service = None)

C11_Witness ==
    /\ sheets_service = Resource("sheets") /\ drive_service = Resource("drive")
    /\ auth_status = <<"Credentials refreshed successfully!">>
    /\ IsCommandCall /\ ChatCommand = "list" /\ Called("mcp.list_files")
    /\ df # None

====
